---- MODULE Spec2Model ----
(***************************************************************************)
(* Blind chess: a human plays against Stockfish through a text console.   *)
(* The model follows src/main.py: class Game and the controller main().   *)
(* The rules library (chess.Board) and the engine (stockfish.Stockfish)   *)
(* are external; they are represented by a small abstract game that has   *)
(* what the controller observes of them: a side to move, a fullmove       *)
(* number, a move stack, legal moves with SAN and UCI texts, ambiguous    *)
(* SAN, checkmate, stalemate and threefold repetition.                    *)
(***************************************************************************)
EXTENDS Integers, Sequences, FiniteSets, TLC

\* Most moves one board records (caps the move stack).
MaxMoves == 10

(***************************************************************************)
(* class GameState                                                         *)
(***************************************************************************)
ONGOING == "ongoing"
CHECKMATE == "checkmate"
STALEMATE == "draw: stalemate"
REPETITION == "draw: repetition"
RESIGNED == "resigned"

GameState == {ONGOING, CHECKMATE, STALEMATE, REPETITION, RESIGNED}

(***************************************************************************)
(* Board-description strings (FEN).  A description is a record of the     *)
(* fields the controller depends on: piece placement, side to move and    *)
(* fullmove number.  A placement says whether each side's king knight is  *)
(* at home or out, and whether the game has been finished on the board.   *)
(***************************************************************************)
Place(wn, bn, fin) == [wn |-> wn, bn |-> bn, fin |-> fin]

MkFen(place, turn, fullmove) == [place |-> place, turn |-> turn, fullmove |-> fullmove]

START_POSITION == MkFen(Place("home", "home", "none"), "w", 1)

\* Board descriptions the program may be started with: the canonical one,
\* another position at fullmove 1, a later position with white to move and
\* a position with black to move.
StartPositions ==
    { START_POSITION,
      MkFen(Place("out", "out", "none"), "w", 1),
      MkFen(Place("home", "out", "none"), "w", 2),
      MkFen(Place("out", "home", "none"), "b", 3) }

(***************************************************************************)
(* chess.Board                                                             *)
(***************************************************************************)
\* chess.Board(fen): a board with an empty move stack.
Board(fen) ==
    [place |-> fen.place, turn |-> fen.turn, fullmove |-> fen.fullmove,
     move_stack |-> <<>>, seen |-> <<>>]

\* board.fen()
Fen(b) == MkFen(b.place, b.turn, b.fullmove)

\* The position signature repetition is counted on (no move numbers).
Signature(b) == <<b.place, b.turn>>

Other(color) == IF color = "w" THEN "b" ELSE "w"

\* Moves are named by their coordinate (UCI) text.
WhiteMoves == {"g1f3", "f3g1", "h5f7", "a1d1", "f1d1"}
BlackMoves == {"g8f6", "f6g8", "h4f2", "a8d8", "f8d8"}
Moves == WhiteMoves \cup BlackMoves

\* board.legal_moves
LegalMoves(b) ==
    IF b.place.fin # "none" THEN {}
    ELSE IF b.turn = "w"
    THEN {IF b.place.wn = "home" THEN "g1f3" ELSE "f3g1"}
         \cup (IF b.place.wn = "out" THEN {"h5f7"} ELSE {})
         \cup (IF b.place.bn = "out" THEN {"a1d1", "f1d1"} ELSE {})
    ELSE {IF b.place.bn = "home" THEN "g8f6" ELSE "f6g8"}
         \cup (IF b.place.bn = "out" THEN {"h4f2"} ELSE {})
         \cup (IF b.place.wn = "out" THEN {"a8d8", "f8d8"} ELSE {})

\* The placement a move leads to.
Dest(place, m) ==
    CASE m = "g1f3" -> [place EXCEPT !.wn = "out"]
      [] m = "f3g1" -> [place EXCEPT !.wn = "home"]
      [] m = "g8f6" -> [place EXCEPT !.bn = "out"]
      [] m = "f6g8" -> [place EXCEPT !.bn = "home"]
      [] m \in {"h5f7", "h4f2"} -> [place EXCEPT !.fin = "mate"]
      [] m \in {"a1d1", "a8d8"} -> [place EXCEPT !.fin = "stale_a"]
      [] m \in {"f1d1", "f8d8"} -> [place EXCEPT !.fin = "stale_f"]

\* board.push(move)
Push(b, m) ==
    [place |-> Dest(b.place, m),
     turn |-> Other(b.turn),
     fullmove |-> IF b.turn = "b" THEN b.fullmove + 1 ELSE b.fullmove,
     move_stack |-> Append(b.move_stack, m),
     seen |-> Append(b.seen, Signature(b))]

\* board.is_checkmate(), board.is_stalemate(), board.is_check()
IsCheckmate(b) == b.place.fin = "mate"
IsStalemate(b) == b.place.fin \in {"stale_a", "stale_f"}
IsCheck(b) == b.place.fin = "mate"

\* board.is_repetition(): the current position has occurred three times.
Occurrences(b) ==
    1 + Cardinality({i \in DOMAIN b.seen : b.seen[i] = Signature(b)})
IsRepetition(b) == Occurrences(b) >= 3

\* board.san(move): the minimal SAN text of a move.
San(m) ==
    CASE m = "g1f3" -> "Nf3"   [] m = "f3g1" -> "Ng1"
      [] m = "g8f6" -> "Nf6"   [] m = "f6g8" -> "Ng8"
      [] m = "h5f7" -> "Qxf7#" [] m = "h4f2" -> "Qxf2#"
      [] m = "a1d1" -> "Rad1"  [] m = "f1d1" -> "Rfd1"
      [] m = "a8d8" -> "Rad8"  [] m = "f8d8" -> "Rfd8"

\* temp_board.san(move): the text of a move in a position; san() fails for
\* a move that is not legal in the position it is asked in.
BoardSan(b, m) == IF m \in LegalMoves(b) THEN San(m) ELSE "AssertionError"

\* The SAN texts parse_san matches with a move: the minimal text, the text
\* without its mate suffix, and the text without its origin file.
SanTexts(m) ==
    CASE m = "h5f7" -> {"Qxf7#", "Qxf7"}
      [] m = "h4f2" -> {"Qxf2#", "Qxf2"}
      [] m \in {"a1d1", "f1d1"} -> {San(m), "Rd1"}
      [] m \in {"a8d8", "f8d8"} -> {San(m), "Rd8"}
      [] OTHER -> {San(m)}

\* Texts of SAN syntax (SAN_REGEX); "Ke2" is well formed and never legal.
SanSyntax == UNION {SanTexts(m) : m \in Moves} \cup {"Ke2"}

\* board.parse_san(text): the move, or the error raised.
ParseSan(b, text) ==
    LET matches == {m \in LegalMoves(b) : text \in SanTexts(m)} IN
    IF text \notin SanSyntax THEN [err |-> "InvalidMoveError", move |-> ""]
    ELSE IF matches = {} THEN [err |-> "IllegalMoveError", move |-> ""]
    ELSE IF Cardinality(matches) > 1 THEN [err |-> "AmbiguousMoveError", move |-> ""]
    ELSE [err |-> "", move |-> CHOOSE m \in matches : TRUE]

\* board.parse_uci(uci): the move, or the error raised (None has no length).
ParseUci(b, uci) ==
    IF uci = "None" THEN [err |-> "TypeError", move |-> ""]
    ELSE IF uci \notin LegalMoves(b) THEN [err |-> "IllegalMoveError", move |-> ""]
    ELSE [err |-> "", move |-> uci]

(***************************************************************************)
(* stockfish.Stockfish: get_best_move() answers a legal move of the       *)
(* position last set, or None when that position has no legal move.       *)
(***************************************************************************)
BestMoves(fen) ==
    IF LegalMoves(Board(fen)) = {} THEN {"None"} ELSE LegalMoves(Board(fen))

(***************************************************************************)
(* Console input                                                           *)
(***************************************************************************)
\* str.lower() on the texts entered.
Lower(s) ==
    CASE s = "H" -> "h"         [] s = "INFO" -> "info"   [] s = "Board" -> "board"
      [] s = "Q" -> "q"         [] s = "Quit" -> "quit"   [] s = "EXIT" -> "exit"
      [] s = "White" -> "white" [] s = "BLACK" -> "black"
      [] s = "Random" -> "random"
      [] s = "Nf3" -> "nf3"     [] s = "Ng1" -> "ng1"
      [] s = "Nf6" -> "nf6"     [] s = "Ng8" -> "ng8"
      [] s = "Qxf7#" -> "qxf7#" [] s = "Qxf7" -> "qxf7"
      [] s = "Qxf2#" -> "qxf2#" [] s = "Qxf2" -> "qxf2"
      [] s = "Rad1" -> "rad1"   [] s = "Rfd1" -> "rfd1"   [] s = "Rd1" -> "rd1"
      [] s = "Rad8" -> "rad8"   [] s = "Rfd8" -> "rfd8"   [] s = "Rd8" -> "rd8"
      [] s = "Ke2" -> "ke2"
      [] OTHER -> s

\* Texts entered at the side prompt.
SideTexts == {"w", "White", "b", "BLACK", "r", "Random", "x"}

\* Texts entered at the move prompt: commands in several letter cases,
\* SAN texts, and text that is neither.
CommandTexts == {"h", "help", "H", "i", "info", "INFO", "b", "board", "Board",
                 "q", "quit", "exit", "Q", "Quit", "EXIT"}
MoveTexts == CommandTexts \cup SanSyntax \cup {"xyz", ""}

(***************************************************************************)
(* class Game                                                              *)
(***************************************************************************)
VARIABLES
    start_positions,  \* main: the board description the game starts from
    board,            \* Game.board
    sf_fen,           \* the position last set in Game.stockfish
    move_counter,     \* Game.move_counter
    game_state,       \* Game.game_state
    opponents_turn,   \* Game.opponents_turn
    side,             \* main: the side entered, a random one resolved
    order,            \* main: the producers of a round, in order
    should_continue,  \* main: the loop flag
    slot,             \* main: the index of the for loop (0 outside it)
    pc,               \* main: where the controller is
    exc,              \* the exception that ended the process, "" if none
    command,          \* do_human_move: the text last read
    printed,          \* what the last human turn printed
    out_board,        \* end of game: the position rendered
    out_fen,          \* end of game: the board description printed
    out_pgn,          \* end of game: the transcript printed
    first_producer,   \* history: the producer invoked first
    movers,           \* history: who applied each move of the move stack
    interrupted       \* history: the prompt was interrupted

vars == <<start_positions, board, sf_fen, move_counter, game_state,
          opponents_turn, side, order, should_continue, slot, pc, exc, command,
          printed, out_board, out_fen, out_pgn, first_producer, movers,
          interrupted>>

\* move_counter started at 1 whatever the description says.
InitialMoveCounter_One(fen) == 1

\* Game.__init__, line 112: int(start_pos.split(" ")[-1]).
InitialMoveCounter(fen) == fen.fullmove

\* Game.__init__ and the state of main before the side is looked at.
Init ==
    /\ start_positions \in StartPositions
    /\ board = Board(start_positions)
    /\ sf_fen = Fen(board)
    /\ move_counter = InitialMoveCounter(start_positions)
    /\ game_state = ONGOING
    /\ opponents_turn = FALSE
    /\ side = ""
    /\ order = <<>>
    /\ should_continue = FALSE
    /\ slot = 0
    /\ pc = "side"
    /\ exc = ""
    /\ command = ""
    /\ printed = ""
    /\ out_board = <<>>
    /\ out_fen = <<>>
    /\ out_pgn = <<>>
    /\ first_producer = "none"
    /\ movers = <<>>
    /\ interrupted = FALSE

\* update_game_state without its stalemate branch.
UpdateGameState_NoStalemate(b) ==
    IF IsCheckmate(b) THEN CHECKMATE
    ELSE IF IsRepetition(b) THEN REPETITION
    ELSE ONGOING

\* Game.update_game_state: the state of a board.
UpdateGameState(b) ==
    IF IsCheckmate(b) THEN CHECKMATE
    ELSE IF IsStalemate(b) THEN STALEMATE
    ELSE IF IsRepetition(b) THEN REPETITION
    ELSE ONGOING

\* Game.show_board: sets the engine's position and prints its drawing;
\* the engine may fail (StockfishException).
ShowBoard(b, engine_ok) ==
    [sf_fen |-> Fen(b),
     printed |-> IF engine_ok THEN "BOARD" ELSE "",
     exc |-> IF engine_ok THEN "" ELSE "StockfishException"]

\* Game.do_command: the tests of the command entered, in any letter case.
IsHelp(cmd) == Lower(cmd) \in {"h", "help"}
IsInfo(cmd) == Lower(cmd) \in {"i", "info"}
IsShow(cmd) == Lower(cmd) \in {"b", "board"}
\* The quit test without lower(): an upper-case quit is not recognized.
IsQuit_CaseSensitive(cmd) == cmd \in {"q", "quit", "exit"}

IsQuit(cmd) == Lower(cmd) \in {"q", "quit", "exit"}

\* Game.do_command: the result, and what the command changes.
DoCommand(cmd, b, gs, sf, engine_ok) ==
    IF IsHelp(cmd)
    THEN [result |-> TRUE, game_state |-> gs, sf_fen |-> sf,
          printed |-> "HELP", exc |-> ""]
    ELSE IF IsInfo(cmd)
    THEN [result |-> TRUE, game_state |-> gs, sf_fen |-> sf,
          printed |-> IF engine_ok THEN "INFO" ELSE "",
          exc |-> IF engine_ok THEN "" ELSE "StockfishException"]
    ELSE IF IsShow(cmd)
    THEN [result |-> TRUE, game_state |-> gs,
          sf_fen |-> ShowBoard(b, engine_ok).sf_fen,
          printed |-> ShowBoard(b, engine_ok).printed,
          exc |-> ShowBoard(b, engine_ok).exc]
    ELSE IF IsQuit(cmd)
    THEN [result |-> TRUE, game_state |-> RESIGNED, sf_fen |-> sf,
          printed |-> "", exc |-> ""]
    ELSE [result |-> FALSE, game_state |-> gs, sf_fen |-> sf,
          printed |-> "", exc |-> ""]

\* do_human_move without line 191: opponents_turn stays False after a move
\* has been pushed.
DoHumanMove_TurnNotSet(text, engine_ok) ==
    LET parsed == ParseSan(board, text) IN
    IF parsed.err = ""
    THEN LET pushed == Push(board, parsed.move) IN
         [ret |-> FALSE, board |-> pushed, opponents_turn |-> FALSE,
          game_state |-> IF game_state # RESIGNED
                         THEN UpdateGameState(pushed) ELSE game_state,
          sf_fen |-> sf_fen, printed |-> "", exc |-> ""]
    ELSE IF parsed.err \in {"IllegalMoveError", "InvalidMoveError"}
    THEN LET c == DoCommand(text, board, game_state, sf_fen, engine_ok) IN
         [ret |-> FALSE, board |-> board, opponents_turn |-> FALSE,
          game_state |-> IF c.exc = "" /\ c.game_state # RESIGNED
                         THEN UpdateGameState(board) ELSE c.game_state,
          sf_fen |-> c.sf_fen,
          printed |-> IF c.exc = "" /\ ~c.result THEN "CommandError" ELSE c.printed,
          exc |-> c.exc]
    ELSE [ret |-> FALSE, board |-> board, opponents_turn |-> FALSE,
          game_state |-> game_state, sf_fen |-> sf_fen, printed |-> "",
          exc |-> parsed.err]

\* Game.do_human_move once input() has returned text: what it returns and
\* the fields it leaves; exc names an exception it does not catch.
DoHumanMove(text, engine_ok) ==
    LET parsed == ParseSan(board, text) IN
    IF parsed.err = ""
    THEN LET pushed == Push(board, parsed.move) IN
         [ret |-> TRUE, board |-> pushed, opponents_turn |-> TRUE,
          game_state |-> IF game_state # RESIGNED
                         THEN UpdateGameState(pushed) ELSE game_state,
          sf_fen |-> sf_fen, printed |-> "", exc |-> ""]
    ELSE IF parsed.err \in {"IllegalMoveError", "InvalidMoveError"}
    THEN LET c == DoCommand(text, board, game_state, sf_fen, engine_ok) IN
         [ret |-> FALSE, board |-> board, opponents_turn |-> FALSE,
          game_state |-> IF c.exc = "" /\ c.game_state # RESIGNED
                         THEN UpdateGameState(board) ELSE c.game_state,
          sf_fen |-> c.sf_fen,
          printed |-> IF c.exc = "" /\ ~c.result THEN "CommandError" ELSE c.printed,
          exc |-> c.exc]
    ELSE [ret |-> FALSE, board |-> board, opponents_turn |-> FALSE,
          game_state |-> game_state, sf_fen |-> sf_fen, printed |-> "",
          exc |-> parsed.err]

\* stockfish.set_fen_position(board.fen()) of do_stockfish_move.
SetFenPosition(b) == Fen(b)

\* Game.do_stockfish_move with the engine's answer uci.
DoStockfishMove(uci, engine_ok) ==
    LET parsed == ParseUci(board, uci) IN
    IF ~engine_ok \/ parsed.err # ""
    THEN [ret |-> FALSE, board |-> board, opponents_turn |-> opponents_turn,
          game_state |-> game_state, sf_fen |-> SetFenPosition(board),
          exc |-> IF ~engine_ok THEN "StockfishException" ELSE parsed.err]
    ELSE LET pushed == Push(board, parsed.move) IN
         [ret |-> TRUE, board |-> pushed, opponents_turn |-> TRUE,
          game_state |-> UpdateGameState(pushed),
          sf_fen |-> SetFenPosition(board), exc |-> ""]

\* get_game_as_pgn without temp_board.push(move): every text is asked of
\* the starting position.
RECURSIVE PgnFrom_NoPush(_, _, _, _)
PgnFrom_NoPush(temp_board, stack, move_no, move_count) ==
    IF move_no > Len(stack) THEN ""
    ELSE LET move == stack[move_no]
             odd == move_no % 2 = 1
         IN (IF odd THEN ToString(move_count) \o ". " ELSE "")
            \o BoardSan(temp_board, move) \o " "
            \o PgnFrom_NoPush(temp_board, stack, move_no + 1,
                              IF odd THEN move_count + 1 ELSE move_count)

\* Game.get_game_as_pgn: the moves of the stack from move_no on, replayed
\* on temp_board.
RECURSIVE PgnFrom(_, _, _, _)
PgnFrom(temp_board, stack, move_no, move_count) ==
    IF move_no > Len(stack) THEN ""
    ELSE LET move == stack[move_no]
             odd == move_no % 2 = 1
         IN (IF odd THEN ToString(move_count) \o ". " ELSE "")
            \o BoardSan(temp_board, move) \o " "
            \o PgnFrom(Push(temp_board, move), stack, move_no + 1,
                       IF odd THEN move_count + 1 ELSE move_count)

GetGameAsPgn == PgnFrom(Board(start_positions), board.move_stack, 1, 1)

(***************************************************************************)
(* main                                                                    *)
(***************************************************************************)
\* The largest move_counter a game of MaxMoves moves can reach.
MaxCounter == MaxMoves + 5

\* The two orders exchanged.
Order_Swapped(entered) ==
    IF Lower(entered) \in {"b", "black"} THEN <<"human", "engine">>
    ELSE IF Lower(entered) \in {"w", "white"} THEN <<"engine", "human">>
    ELSE <<>>

\* Any side that is not black taken for white.
Order_DefaultWhite(entered) ==
    IF Lower(entered) \in {"b", "black"} THEN <<"engine", "human">>
    ELSE <<"human", "engine">>

\* The producers of a round for the side entered.
Order(entered) ==
    IF Lower(entered) \in {"b", "black"} THEN <<"engine", "human">>
    ELSE IF Lower(entered) \in {"w", "white"} THEN <<"human", "engine">>
    ELSE <<>>

\* The for loop of a round from slot s on: the producer it calls next, or
\* the end of the round when every slot left is skipped.
RECURSIVE ForFrom(_, _, _)
ForFrom(ord, s, ot) ==
    IF s > Len(ord) THEN [pc |-> "round_end", slot |-> 0]
    ELSE IF ~ot THEN ForFrom(ord, s + 1, ot)
    ELSE [pc |-> ord[s], slot |-> s]

\* The inner loop left after one call whatever move() returned.
AfterCall_NoRetry(s, is_move, gs, ot, sc) ==
    [next |-> ForFrom(order, s + 1, ot),
     should_continue |-> IF gs # ONGOING THEN FALSE ELSE sc]

\* The inner while loop once move() has returned is_move in slot s.
AfterCall(s, is_move, gs, ot, sc) ==
    IF gs # ONGOING
    THEN [next |-> ForFrom(order, s + 1, ot), should_continue |-> FALSE]
    ELSE IF is_move
    THEN [next |-> ForFrom(order, s + 1, ot), should_continue |-> sc]
    ELSE [next |-> [pc |-> order[s], slot |-> s], should_continue |-> sc]

\* history: the first producer invoked.
FirstProducer(next_pc) ==
    IF first_producer = "none" /\ next_pc \in {"human", "engine"}
    THEN next_pc ELSE first_producer

\* main, lines 261-274: the side entered decides the order of the producers.
ChooseSide ==
    /\ pc = "side"
    /\ \E text \in SideTexts, choice \in {"black", "white"} :
         LET resolved == IF Lower(text) \in {"r", "random"} THEN choice ELSE text
             ord == Order(resolved)
             next == ForFrom(ord, 1, TRUE)
         IN /\ side' = resolved
            /\ IF ord = <<>>
               THEN /\ pc' = "exit1"
                    /\ UNCHANGED <<order, opponents_turn, should_continue,
                                   slot, first_producer>>
               ELSE /\ order' = ord
                    /\ opponents_turn' = TRUE
                    /\ should_continue' = TRUE
                    /\ pc' = next.pc
                    /\ slot' = next.slot
                    /\ first_producer' = FirstProducer(next.pc)
    /\ UNCHANGED <<start_positions, board, sf_fen, move_counter, game_state,
                   exc, command, printed, out_board, out_fen, out_pgn,
                   movers, interrupted>>

\* move() is do_human_move and the human enters a text.
HumanMove ==
    /\ pc = "human"
    /\ \E text \in MoveTexts, engine_ok \in BOOLEAN :
         LET r == DoHumanMove(text, engine_ok)
             a == AfterCall(slot, r.ret, r.game_state, r.opponents_turn,
                            should_continue)
         IN /\ Len(r.board.move_stack) <= MaxMoves
            /\ command' = text
            /\ board' = r.board
            /\ opponents_turn' = r.opponents_turn
            /\ game_state' = r.game_state
            /\ sf_fen' = r.sf_fen
            /\ printed' = r.printed
            /\ exc' = r.exc
            /\ movers' = IF r.board # board THEN Append(movers, "human") ELSE movers
            /\ IF r.exc # ""
               THEN /\ pc' = "crashed"
                    /\ UNCHANGED <<slot, should_continue, first_producer>>
               ELSE /\ pc' = a.next.pc
                    /\ slot' = a.next.slot
                    /\ should_continue' = a.should_continue
                    /\ first_producer' = FirstProducer(a.next.pc)
    /\ UNCHANGED <<start_positions, move_counter, side, order, out_board, out_fen,
                   out_pgn, interrupted>>

\* move() is do_human_move and input() raises KeyboardInterrupt.
HumanInterrupt ==
    /\ pc = "human"
    /\ LET a == AfterCall(slot, FALSE, RESIGNED, opponents_turn, should_continue)
       IN /\ game_state' = RESIGNED
          /\ interrupted' = TRUE
          /\ pc' = a.next.pc
          /\ slot' = a.next.slot
          /\ should_continue' = a.should_continue
          /\ first_producer' = FirstProducer(a.next.pc)
    /\ UNCHANGED <<start_positions, board, sf_fen, move_counter,
                   opponents_turn, side, order, exc, command, printed, out_board,
                   out_fen, out_pgn, movers>>

\* move() is do_stockfish_move.
StockfishMove ==
    /\ pc = "engine"
    /\ \E uci \in BestMoves(SetFenPosition(board)), engine_ok \in BOOLEAN :
         LET r == DoStockfishMove(uci, engine_ok)
             a == AfterCall(slot, r.ret, r.game_state, r.opponents_turn,
                            should_continue)
         IN /\ Len(r.board.move_stack) <= MaxMoves
            /\ board' = r.board
            /\ opponents_turn' = r.opponents_turn
            /\ game_state' = r.game_state
            /\ sf_fen' = r.sf_fen
            /\ exc' = r.exc
            /\ movers' = IF r.board # board THEN Append(movers, "engine") ELSE movers
            /\ IF r.exc # ""
               THEN /\ pc' = "crashed"
                    /\ UNCHANGED <<slot, should_continue, first_producer>>
               ELSE /\ pc' = a.next.pc
                    /\ slot' = a.next.slot
                    /\ should_continue' = a.should_continue
                    /\ first_producer' = FirstProducer(a.next.pc)
    /\ UNCHANGED <<start_positions, move_counter, side, order, command, printed,
                   out_board, out_fen, out_pgn, interrupted>>

\* main, line 292 and the test of the outer while loop.
RoundEnd ==
    /\ pc = "round_end"
    /\ move_counter < MaxCounter
    /\ move_counter' = move_counter + 1
    /\ LET next == ForFrom(order, 1, opponents_turn)
       IN IF should_continue
          THEN /\ pc' = next.pc
               /\ slot' = next.slot
               /\ first_producer' = FirstProducer(next.pc)
          ELSE /\ pc' = "render"
               /\ slot' = 0
               /\ UNCHANGED first_producer
    /\ UNCHANGED <<start_positions, board, sf_fen, game_state, opponents_turn,
                   side, order, should_continue, exc, command, printed, out_board,
                   out_fen, out_pgn, movers, interrupted>>

\* main, lines 294-309: the end-of-game output.
EndOfGame ==
    /\ pc = "render"
    /\ \E engine_ok \in BOOLEAN :
         out_board' = IF engine_ok THEN <<sf_fen>> ELSE <<>>
    /\ out_fen' = <<Fen(board)>>
    /\ out_pgn' = IF start_positions.fullmove = 1 THEN <<GetGameAsPgn>> ELSE <<>>
    /\ pc' = "done"
    /\ UNCHANGED <<start_positions, board, sf_fen, move_counter, game_state,
                   opponents_turn, side, order, should_continue, slot, exc, command,
                   printed, first_producer, movers, interrupted>>

Next ==
    \/ ChooseSide
    \/ HumanMove
    \/ HumanInterrupt
    \/ StockfishMove
    \/ RoundEnd
    \/ EndOfGame

Spec == Init /\ [][Next]_vars

(***************************************************************************)
(* Properties                                                              *)
(***************************************************************************)
Producers == {"human", "engine"}
Terminal == {CHECKMATE, STALEMATE, REPETITION}

\* The color the side entered binds to the human.
HumanColor == IF Lower(side) \in {"b", "black"} THEN "b" ELSE "w"

\* The game was started from the canonical initial position.
StandardGame == start_positions = START_POSITION

\* A step in which a producer applies a move to the board.
MoveApplied == Len(board'.move_stack) = Len(board.move_stack) + 1

\* The command texts of MoveTexts by what they ask for.
QuitTexts == {"q", "quit", "exit", "Q", "Quit", "EXIT"}
KeepTexts == {"h", "help", "H", "i", "info", "INFO", "b", "board", "Board"}

\* A step in which do_human_move reads the text command'.
InputRead == pc = "human" /\ interrupted' = interrupted

\* C1: whenever a move applied by a producer makes the game state
\* CHECKMATE, STALEMATE or REPETITION, no further producer is invoked: the
\* controller goes to the end of the round and leaves the loop.  Stated for
\* the games started from the canonical initial position.
C1_TerminalMoveEndsLoop ==
    [][StandardGame /\ MoveApplied /\ game_state' \in Terminal
       => pc' \notin Producers]_vars

\* C2: once the prompt has been interrupted no producer is invoked any more
\* and game_state is RESIGNED from then on, the end of the loop included.
\* Stated for the games started from the canonical initial position.
C2_InterruptResigns ==
    StandardGame /\ interrupted => pc \notin Producers /\ game_state = RESIGNED

\* C3: when q, quit or exit is entered in any letter case, the board is not
\* changed, game_state is RESIGNED, no producer is invoked afterwards and
\* game_state is RESIGNED when the loop has been left.
C3_QuitResigns ==
    /\ [](command \in QuitTexts =>
            game_state = RESIGNED /\ pc \in {"round_end", "render", "done"})
    /\ [][InputRead /\ command' \in QuitTexts => board' = board]_vars

C3_Witness ==
    /\ command \in {"Q", "Quit", "EXIT"}
    /\ pc = "done"
    /\ game_state = RESIGNED
    /\ board.move_stack # <<>>

\* C4: whenever a producer is invoked the side to move on the board is the
\* color bound to that producer.  Stated for the games started from the
\* canonical initial position.
C4_ProducerMovesOwnColor ==
    /\ StandardGame /\ pc = "human" => board.turn = HumanColor
    /\ StandardGame /\ pc = "engine" => board.turn = Other(HumanColor)

\* C5: while the game is going on, a text that fails as a move (malformed,
\* illegal or ambiguous) and is no command leaves the board unchanged, is
\* answered with a message, ends nothing, and the human is prompted again.
\* Stated for the games started from the canonical initial position.
C5_FailedMoveReprompts ==
    [][(/\ StandardGame
        /\ InputRead
        /\ game_state = ONGOING
        /\ ParseSan(board, command').err # ""
        /\ command' \notin CommandTexts)
       => (/\ board' = board
           /\ printed' = "CommandError"
           /\ exc' = ""
           /\ pc' = "human")]_vars

\* C6: a help, board or info command, or a text that is neither a command
\* nor of move syntax, changes neither the board (its move stack included)
\* nor move_counter, and while game_state remains ONGOING and the process
\* runs, the producer invoked next is the human producer again.
C6_CommandKeepsTurn ==
    [][(/\ InputRead
        /\ \/ command' \in KeepTexts
           \/ command' \notin CommandTexts \cup SanSyntax)
       => (/\ board' = board
           /\ move_counter' = move_counter
           /\ (game_state' = ONGOING /\ exc' = "" => pc' = "human"))]_vars

C6_Witness ==
    /\ pc = "human"
    /\ order = <<"human", "engine">>
    /\ printed \in {"HELP", "BOARD", "INFO", "CommandError"}
    /\ game_state = ONGOING
    /\ board.move_stack # <<>>

\* C7: with the human black the producer invoked first is the engine, so
\* the first move of the stack is the engine's at every human prompt; with
\* the human white the producer invoked first is the human; no move is
\* applied before the first invocation; and the side and the order of the
\* producers, once set, stay the same.
C7_FirstProducer ==
    /\ [](first_producer = "none" => movers = <<>>)
    /\ [](order # <<>> /\ HumanColor = "b" =>
            /\ first_producer = "engine"
            /\ (pc = "human" => movers # <<>> /\ movers[1] = "engine"))
    /\ [](order # <<>> /\ HumanColor = "w" => first_producer = "human")
    /\ [][order # <<>> => order' = order /\ side' = side]_vars

C7_Witness ==
    /\ pc = "human"
    /\ Lower(side) = "black"
    /\ movers = <<"engine", "human", "engine">>

\* C8: after every applied move game_state is CHECKMATE if the new position
\* is checkmate, else STALEMATE if it is stalemate, else REPETITION if it
\* has occurred three times, else ONGOING; never RESIGNED.
C8_StateAfterMove ==
    [][MoveApplied =>
        /\ IsCheckmate(board') => game_state' = CHECKMATE
        /\ ~IsCheckmate(board') /\ IsStalemate(board')
             => game_state' = STALEMATE
        /\ ~IsCheckmate(board') /\ ~IsStalemate(board') /\ Occurrences(board') >= 3
             => game_state' = REPETITION
        /\ ~IsCheckmate(board') /\ ~IsStalemate(board') /\ Occurrences(board') < 3
             => game_state' = ONGOING]_vars

C8_Witness ==
    /\ game_state = REPETITION
    /\ movers # <<>>
    /\ movers[Len(movers)] = "human"
    /\ Len(board.move_stack) = Len(movers)

\* C9: every engine turn the engine answers sets the engine's position to
\* the board's position, applies exactly one move and reports the turn as
\* advanced.  Stated for the games started from the canonical initial
\* position.
C9_EngineTurnAppliesOneMove ==
    [][StandardGame /\ pc = "engine" /\ exc' # "StockfishException"
       => (/\ sf_fen' = Fen(board)
           /\ MoveApplied
           /\ opponents_turn'
           /\ exc' = "")]_vars

\* C10: the position rendered at the end of the game is the final position
\* of the board, the one printed as the board description.  Stated for the
\* games started from the canonical initial position.
C10_RenderedIsFinal ==
    StandardGame /\ pc = "done" /\ out_board # <<>> => out_board = out_fen

\* C11: at the end of the game the transcript is printed if and only if
\* the game started from the canonical initial position.
C11_TranscriptIffCanonical ==
    pc = "done" => (out_pgn # <<>> <=> start_positions = START_POSITION)

\* The rounds of a move sequence of length n.
Rounds(n) == (n + 1) \div 2

\* The positions a move sequence goes through from the starting position:
\* PositionBefore(i) is the position the i-th move is played in.
RECURSIVE PositionBefore(_)
PositionBefore(i) ==
    IF i = 1 THEN Board(start_positions)
    ELSE Push(PositionBefore(i - 1), board.move_stack[i - 1])

\* The text of round k: its marker, the move of the first side, and the
\* move of the second side when there is one.
RoundText(k) ==
    ToString(k) \o ". "
    \o BoardSan(PositionBefore(2 * k - 1), board.move_stack[2 * k - 1]) \o " "
    \o (IF 2 * k <= Len(board.move_stack)
        THEN BoardSan(PositionBefore(2 * k), board.move_stack[2 * k]) \o " "
        ELSE "")

RECURSIVE RoundsText(_)
RoundsText(k) ==
    IF k > Rounds(Len(board.move_stack)) THEN ""
    ELSE RoundText(k) \o RoundsText(k + 1)

\* C12: the transcript printed lists the moves of the stack in play order,
\* each followed by one space, with the marker "k. " before the (2k-1)-th
\* move and none before the even moves; the text of a move is its SAN in
\* the position it was played in, never a failure of san(); and rendering
\* leaves the board of the game as it is.
C12_TranscriptFormat ==
    /\ [](pc = "done" /\ out_pgn # <<>> => out_pgn = <<RoundsText(1)>>)
    /\ [][pc = "render" => board' = board]_vars

C12_Witness ==
    /\ pc = "done"
    /\ board.move_stack = <<"g1f3", "g8f6", "h5f7">>
    /\ out_pgn = <<"1. Nf3 Nf6 2. Qxf7# ">>

\* The texts of the board command among MoveTexts.
ShowTexts == {"b", "board", "Board"}

\* C13: a board command entered while the game is going on never ends the
\* process, whatever the engine does while the board is drawn: nothing is
\* raised out of the human turn, the board is unchanged and the human is
\* prompted again.  Stated for the games started from the canonical initial
\* position.
C13_RenderErrorCaught ==
    [][(/\ StandardGame
        /\ InputRead
        /\ game_state = ONGOING
        /\ command' \in ShowTexts)
       => (/\ exc' = ""
           /\ board' = board
           /\ pc' = "human")]_vars

\* The sides main accepts, compared in lower case.
ValidSides == {"r", "random", "b", "black", "w", "white"}

\* C14: once a side that is none of r, random, b, black, w, white in any
\* letter case has been entered, the process has exited with code 1, no
\* producer has been invoked and no move has been applied; and the process
\* exits that way for no other side.
C14_InvalidSideExits ==
    /\ pc # "side" /\ Lower(side) \notin ValidSides
         => /\ pc = "exit1"
            /\ first_producer = "none"
            /\ movers = <<>>
            /\ board = Board(start_positions)
    /\ pc = "exit1" => Lower(side) \notin ValidSides

C14_Witness ==
    /\ pc = "exit1"
    /\ side = "x"
    /\ board.move_stack = <<>>

\* C15: when the main loop has been left game_state is CHECKMATE,
\* STALEMATE, REPETITION or RESIGNED, never ONGOING.  Stated for the games
\* started from the canonical initial position.
C15_TerminalAtExit ==
    StandardGame /\ pc \in {"render", "done"}
        => game_state \in Terminal \cup {RESIGNED}

\* C16: opponents_turn is true whenever a round starts, and a round starts
\* with its first slot; the only slot ever skipped is the engine slot that
\* follows a human slot of the same round, and then the last input of the
\* human applied no move.  So no first slot and no human slot is skipped.
C16_OnlyEngineSlotSkipped ==
    /\ [](pc = "round_end" /\ should_continue => opponents_turn)
    /\ [][pc = "side" /\ pc' # "exit1"
            => opponents_turn' /\ slot' = 1 /\ pc' = order'[1]]_vars
    /\ [][pc = "round_end" /\ pc' # "render"
            => opponents_turn' /\ slot' = 1 /\ pc' = order[1]]_vars
    /\ [][slot = 1 /\ pc' = "round_end"
            => /\ pc = "human"
               /\ order = <<"human", "engine">>
               /\ board' = board]_vars

C16_Witness ==
    /\ pc = "round_end"
    /\ ~opponents_turn
    /\ order = <<"human", "engine">>
    /\ command = "quit"
    /\ board.move_stack # <<>>

\* A producer has returned with a game state that is not ONGOING: the loop
\* flag has been cleared.
Stopped == order # <<>> /\ ~should_continue

\* After that no new round is started: a producer is reached only as a
\* later slot of the round under way, and move_counter is changed once at
\* most, by the increment that ends the round and leaves the loop.
NoNewRound ==
    /\ [][Stopped /\ pc' \in Producers
            => pc \in Producers /\ slot' > slot]_vars
    /\ [][Stopped /\ move_counter' # move_counter
            => /\ pc = "round_end"
               /\ pc' = "render"
               /\ move_counter' = move_counter + 1]_vars
    /\ [][(pc \in {"render", "done"}) => move_counter' = move_counter]_vars

\* C17: once a producer has returned with game_state not ONGOING, no new
\* round is started, move_counter is incremented once more and the loop is
\* left: the process is not ended before that, unless the engine itself
\* fails.  Stated for the games started from the canonical initial position.
C17_LoopExitsAfterTerminal ==
    /\ NoNewRound
    /\ [](StandardGame /\ Stopped /\ exc # "StockfishException"
            => pc # "crashed")

\* C18: in a game started from a position with white to move, whenever a
\* producer is invoked move_counter is the fullmove number of the board;
\* move_counter changes only by the increment that ends a round.
C18_CounterIsFullmove ==
    /\ [](start_positions.turn = "w" /\ pc \in Producers
            => move_counter = board.fullmove)
    /\ [][move_counter' # move_counter
            => pc = "round_end" /\ move_counter' = move_counter + 1]_vars

C18_Witness ==
    /\ start_positions.turn = "w"
    /\ start_positions.fullmove = 2
    /\ pc = "engine"
    /\ slot = 2
    /\ move_counter = 4
    /\ board.fullmove = 4

====
